---- MODULE Spec2Model ----
(***************************************************************************)
(* Model of app.py: the initData verifier, the access ledger in SQLite,    *)
(* the two Flask handlers (/api/has, /buy) and the two aiogram handlers    *)
(* (pre-checkout, successful payment).                                     *)
(*                                                                         *)
(* Text is modelled character by character.  A string is a sequence of     *)
(* tokens and a token is a tuple of TLA+ strings: a character c is the     *)
(* token <<c>>, and the 64 hex characters of an HMAC digest are one token  *)
(* <<"hmac", "sha256", token, c1, ..., cn>>: the key and the signed text   *)
(* (an HMAC without collisions).                                           *)
(***************************************************************************)
EXTENDS Integers, Sequences, FiniteSets, TLC

\* ------------------------------------------------------------------ text

\* The ASCII characters by code point (entry i is the character i-1); the
\* unprintable ones and the quote characters have names.
Ascii ==
  <<
     "x00", "x01", "x02", "x03", "x04", "x05", "x06", "x07",
     "x08", "x09", "LF", "x0b", "x0c", "x0d", "x0e", "x0f",
     "x10", "x11", "x12", "x13", "x14", "x15", "x16", "x17",
     "x18", "x19", "x1a", "x1b", "x1c", "x1d", "x1e", "x1f",
     " ", "!", "dquote", "#", "$", "%", "&", "squote",
     "(", ")", "*", "+", ",", "-", ".", "/",
     "0", "1", "2", "3", "4", "5", "6", "7",
     "8", "9", ":", ";", "<", "=", ">", "?",
     "@", "A", "B", "C", "D", "E", "F", "G",
     "H", "I", "J", "K", "L", "M", "N", "O",
     "P", "Q", "R", "S", "T", "U", "V", "W",
     "X", "Y", "Z", "[", "bslash", "]", "^", "_",
     "btick", "a", "b", "c", "d", "e", "f", "g",
     "h", "i", "j", "k", "l", "m", "n", "o",
     "p", "q", "r", "s", "t", "u", "v", "w",
     "x", "y", "z", "{", "|", "}", "~", "x7f"
  >>

NonAscii == {"e_acute", "ufffd"}

CodePoint ==
  [c \in {Ascii[i] : i \in 1..Len(Ascii)} \cup NonAscii |->
     IF c = "e_acute" THEN 233
     ELSE IF c = "ufffd" THEN 65533
     ELSE (CHOOSE i \in 1..Len(Ascii) : Ascii[i] = c) - 1]

Str(t) == [i \in 1..Len(t) |-> <<t[i]>>]

IsDigest(tok) == tok[1] = "hmac"

\* Python orders and classifies str by code point. A digest is lowercase hex
\* text; where one stands in for a character it counts as its first digit,
\* which no key of the model's inputs ever holds.
Ord(tok) == IF IsDigest(tok) THEN 48 ELSE CodePoint[tok[1]]

IsAscii(tok) == Ord(tok) < 128

RECURSIVE Flat(_)
Flat(s) == IF s = <<>> THEN <<>> ELSE Head(s) \o Flat(Tail(s))

\* str.split(sep): the segments of s between occurrences of the character sep.
RECURSIVE SplitAcc(_, _, _)
SplitAcc(s, sep, cur) ==
  IF s = <<>> THEN <<cur>>
  ELSE IF Head(s) = <<sep>> THEN <<cur>> \o SplitAcc(Tail(s), sep, <<>>)
  ELSE SplitAcc(Tail(s), sep, Append(cur, Head(s)))

Split(s, sep) == SplitAcc(s, sep, <<>>)

\* Position of the first occurrence of the character c in s, 0 when absent.
IndexOf(s, c) ==
  IF \E i \in 1..Len(s) : s[i] = <<c>>
  THEN CHOOSE i \in 1..Len(s) : s[i] = <<c>> /\ \A j \in 1..(i-1) : s[j] # <<c>>
  ELSE 0

\* str.replace('+', ' ')
PlusToSpace(s) == [i \in 1..Len(s) |-> IF s[i] = <<"+">> THEN <<" ">> ELSE s[i]]

IsDigit(tok) == ~IsDigest(tok) /\ Ord(tok) \in 48..57

IsHexDigit(tok) ==
  ~IsDigest(tok) /\ (Ord(tok) \in 48..57 \/ Ord(tok) \in 65..70 \/ Ord(tok) \in 97..102)

HexVal(tok) ==
  IF Ord(tok) \in 48..57 THEN Ord(tok) - 48
  ELSE IF Ord(tok) \in 65..70 THEN Ord(tok) - 55
  ELSE Ord(tok) - 87

\* The character of one decoded byte: an ASCII byte is itself; a lone byte
\* >= 0x80 is not valid UTF-8 and decodes (errors='replace') to U+FFFD.
ChrOfByte(b) == IF b >= 128 THEN <<"ufffd">> ELSE <<Ascii[b + 1]>>

\* urllib.parse.unquote: %XX escapes are decoded, anything else is literal.
RECURSIVE Unquote(_)
Unquote(s) ==
  IF s = <<>> THEN <<>>
  ELSE IF Head(s) = <<"%">> /\ Len(s) >= 3 /\ IsHexDigit(s[2]) /\ IsHexDigit(s[3])
       THEN <<ChrOfByte(16 * HexVal(s[2]) + HexVal(s[3]))>>
              \o Unquote(SubSeq(s, 4, Len(s)))
       ELSE <<Head(s)>> \o Unquote(Tail(s))

\* urllib.parse.parse_qsl(data) with its defaults (keep_blank_values=False,
\* strict_parsing=False): the fields are split at '&'; an empty field, a field
\* without '=' and a field with an empty value are skipped, not errors; names
\* and values have '+' replaced by a space and are then unquoted.
QslKeeps(seg) == seg # <<>> /\ IndexOf(seg, "=") # 0 /\ IndexOf(seg, "=") < Len(seg)

QslPair(seg) ==
  <<Unquote(PlusToSpace(SubSeq(seg, 1, IndexOf(seg, "=") - 1))),
    Unquote(PlusToSpace(SubSeq(seg, IndexOf(seg, "=") + 1, Len(seg))))>>

parse_qsl(data) ==
  LET segs == Split(data, "&") IN
  SelectSeq([i \in 1..Len(segs) |->
               IF QslKeeps(segs[i]) THEN QslPair(segs[i]) ELSE <<>>],
            LAMBDA p : p # <<>>)

\* dict(pairs): one value per name, the last pair of a name wins.
DictOf(pairs) ==
  [k \in {pairs[i][1] : i \in 1..Len(pairs)} |->
     pairs[CHOOSE i \in 1..Len(pairs) :
             pairs[i][1] = k /\ \A j \in (i+1)..Len(pairs) : pairs[j][1] # k][2]]

\* parts.pop("hash"): the mapping without that key.
DictPop(d, k) == [x \in DOMAIN d \ {k} |-> d[x]]

\* a < b for str: the first differing character decides, a prefix is smaller.
RECURSIVE StrLess(_, _)
StrLess(a, b) ==
  IF b = <<>> THEN FALSE
  ELSE IF a = <<>> THEN TRUE
  ELSE IF Ord(Head(a)) # Ord(Head(b)) THEN Ord(Head(a)) < Ord(Head(b))
  ELSE StrLess(Tail(a), Tail(b))

\* sorted(parts.items()): the keys in ascending order (keys of a dict differ,
\* so the values never decide).
RECURSIVE SortedKeys(_)
SortedKeys(ks) ==
  IF ks = {} THEN <<>>
  ELSE LET m == CHOOSE k \in ks : \A o \in ks \ {k} : StrLess(k, o)
       IN <<m>> \o SortedKeys(ks \ {m})

\* "\n".join(f"{k}={v}" for k, v in sorted(parts.items()))
RECURSIVE JoinLines(_, _)
JoinLines(d, keys) ==
  IF keys = <<>> THEN <<>>
  ELSE Head(keys) \o Str(<<"=">>) \o d[Head(keys)]
         \o (IF Len(keys) > 1 THEN Str(<<"LF">>) ELSE <<>>)
         \o JoinLines(d, Tail(keys))

Canonical(d) == JoinLines(d, SortedKeys(DOMAIN d))

\* hashlib.sha256(token).digest() and hmac.new(key, text, sha256).hexdigest(),
\* as collision-free symbolic terms.
Sha256(token) == <<"sha256", token>>

HmacHex(key, text) == <<<<"hmac">> \o key \o Flat(text)>>

BOT_TOKEN == "BOT_TOKEN"

StrHash == Str(<<"h", "a", "s", "h">>)
StrUserId == Str(<<"u", "s", "e", "r", "[", "i", "d", "]">>)

\* int(str): surrounding whitespace is stripped, one sign is allowed, and
\* the digits may be separated by single underscores.
IsSpace(tok) == ~IsDigest(tok) /\ (Ord(tok) \in 9..13 \/ Ord(tok) \in 28..32)

RECURSIVE LStrip(_)
LStrip(s) == IF s # <<>> /\ IsSpace(Head(s)) THEN LStrip(Tail(s)) ELSE s

RECURSIVE RStrip(_)
RStrip(s) ==
  IF s # <<>> /\ IsSpace(s[Len(s)]) THEN RStrip(SubSeq(s, 1, Len(s) - 1)) ELSE s

IntBody(s) ==
  LET t == RStrip(LStrip(s)) IN
  IF t # <<>> /\ t[1] \in {<<"+">>, <<"-">>} THEN Tail(t) ELSE t

IntSign(s) ==
  LET t == RStrip(LStrip(s)) IN IF t # <<>> /\ t[1] = <<"-">> THEN -1 ELSE 1

IsIntLiteral(s) ==
  LET b == IntBody(s) IN
  /\ b # <<>>
  /\ \A i \in 1..Len(b) : IsDigit(b[i]) \/ b[i] = <<"_">>
  /\ IsDigit(b[1]) /\ IsDigit(b[Len(b)])
  /\ \A i \in 1..(Len(b) - 1) : ~(b[i] = <<"_">> /\ b[i+1] = <<"_">>)

RECURSIVE DigitsVal(_, _)
DigitsVal(b, acc) ==
  IF b = <<>> THEN acc
  ELSE IF Head(b) = <<"_">> THEN DigitsVal(Tail(b), acc)
  ELSE DigitsVal(Tail(b), 10 * acc + (Ord(Head(b)) - 48))

IntOf(s) == IntSign(s) * DigitsVal(IntBody(s), 0)

\* What a call gives: a value, None, or an exception that leaves the function.
RetInt(n) == [tag |-> "int", val |-> n]
RetNone == [tag |-> "None", val |-> 0]
RaiseTypeError == [tag |-> "TypeError", val |-> 0]

\* hmac.compare_digest(a, b) on two str: TypeError unless both are ASCII.
CompareDigestRaises(a, b) ==
  (\E i \in 1..Len(a) : ~IsAscii(a[i])) \/ (\E j \in 1..Len(b) : ~IsAscii(b[j]))

verify_initdata(data) ==
  LET all == DictOf(parse_qsl(data)) IN
  IF StrHash \notin DOMAIN all THEN RetNone
  ELSE
    LET passed_hash == all[StrHash]
        parts == DictPop(all, StrHash)
        payload == Canonical(parts)
        secret == Sha256(BOT_TOKEN)
        calc_hash == HmacHex(secret, payload)
    IN IF CompareDigestRaises(calc_hash, passed_hash) THEN RaiseTypeError
       ELSE IF calc_hash # passed_hash THEN RetNone
       ELSE IF StrUserId \notin DOMAIN parts THEN RetNone
       ELSE IF ~IsIntLiteral(parts[StrUserId]) THEN RetNone
       ELSE RetInt(IntOf(parts[StrUserId]))

\* ---------------------------------------------------------------- state

VARIABLES
  clock,      \* time.time(), whole seconds
  access,     \* table access: rows [user_id, until_ts]
  charges,    \* table charges: rows [user_id, charge_id], in insertion order
  lock,       \* DB_LOCK: "free", or the thread that holds it
  fpc,        \* where the Flask thread is in its handler
  freq,       \* the HTTP request it is handling
  fl,         \* that handler's locals
  fresp,      \* the HTTP response it gave
  posts,      \* the invoice requests this request POSTed to createInvoiceLink
  bpc,        \* where the bot's event loop is in its handler
  bev,        \* the update it is handling
  bl,         \* that handler's locals
  answers,    \* answer_pre_checkout_query calls made for this update
  awaiting,   \* on_success handlers suspended in await msg.answer(...), each
              \* named by its entry of grantLog
  grantLog,   \* every committed grant, in order: the row written, when
              \* grant_access was called and the days that were paid for
  finished,   \* the entries of grantLog whose handler confirmed and returned
  ticks,      \* clock steps taken
  events,     \* successful payments delivered
  vin,        \* a verify_initdata call on its own: how its input was made
  vraw,       \* its input text
  vout,       \* what it gave
  vpc         \* "call" before it, "done" after it

vars ==
  <<clock, access, charges, lock, fpc, freq, fl, fresp, posts, bpc, bev, bl,
    answers, awaiting, grantLog, finished, ticks, events, vin, vraw, vout, vpc>>

flaskVars == <<fpc, freq, fl, fresp, posts>>
botVars == <<bpc, bev, bl, answers, awaiting, grantLog, finished, events>>
verifyVars == <<vin, vraw, vout, vpc>>

MaxTicks == 1
MaxEvents == 2

Users == {5, 7}
ChargeIds == {"ch1"}

\* ------------------------------------------------------- initData inputs

\* The issuing platform signs the decoded fields of a payload: the digest of
\* their canonical string under the key derived from a token.
PlatformHash(token, fields) == HmacHex(Sha256(token), Canonical(DictOf(fields)))

RECURSIVE JoinAmp(_)
JoinAmp(segs) ==
  IF segs = <<>> THEN <<>>
  ELSE Head(segs) \o (IF Len(segs) > 1 THEN Str(<<"&">>) ELSE <<>>) \o JoinAmp(Tail(segs))

Seg(k, v) == k \o Str(<<"=">>) \o v

StrUserIdQuoted ==
  Str(<<"u", "s", "e", "r", "%", "5", "B", "i", "d", "%", "5", "D">>)

\* Payloads as a client holds them: the fields the platform asserted and the
\* raw text without its hash field.
BasePayloads ==
  [ plain |->
      [fields |-> <<<<StrUserId, Str(<<"5">>)>>>>,
       body |-> <<Seg(StrUserId, Str(<<"5">>))>>],
    unsorted |->
      [fields |-> <<<<StrUserId, Str(<<"7">>)>>, <<Str(<<"a">>), Str(<<"1">>)>>>>,
       body |-> <<Seg(StrUserId, Str(<<"7">>)), Seg(Str(<<"a">>), Str(<<"1">>))>>],
    quoted |->
      [fields |-> <<<<StrUserId, Str(<<"5">>)>>>>,
       body |-> <<Seg(StrUserIdQuoted, Str(<<"5">>))>>],
    no_user |->
      [fields |-> <<<<Str(<<"a">>), Str(<<"1">>)>>>>,
       body |-> <<Seg(Str(<<"a">>), Str(<<"1">>))>>],
    user_not_int |->
      [fields |-> <<<<StrUserId, Str(<<"x">>)>>>>,
       body |-> <<Seg(StrUserId, Str(<<"x">>))>>],
    blank_value |->
      [fields |-> <<<<Str(<<"a">>), <<>>>>, <<StrUserId, Str(<<"5">>)>>>>,
       body |-> <<Seg(Str(<<"a">>), <<>>), Seg(StrUserId, Str(<<"5">>))>>],
    field_without_eq |->
      [fields |-> <<<<StrUserId, Str(<<"5">>)>>>>,
       body |-> <<Seg(StrUserId, Str(<<"5">>)), Str(<<"x">>)>>] ]

BaseNames == DOMAIN BasePayloads

Tokens == {"BOT_TOKEN", "OTHER_TOKEN"}

\* The raw text of a base payload: its fields, then hash=<digest> if signed.
RawOf(name, token, hashed) ==
  JoinAmp(BasePayloads[name].body \o
          (IF hashed
           THEN <<Seg(StrHash, PlatformHash(token, BasePayloads[name].fields))>>
           ELSE <<>>))

MutChars == {"&", "=", "x", "b", "+", "e_acute"}

NoMutation == [kind |-> "none", at |-> 0, ch |-> "x"]

Mutations(raw) ==
  {NoMutation}
    \cup [kind : {"replace"}, at : 1..Len(raw), ch : MutChars]
    \cup [kind : {"insert"}, at : 0..Len(raw), ch : MutChars]
    \cup [kind : {"delete"}, at : 1..Len(raw), ch : {"x"}]

Mutate(raw, m) ==
  CASE m.kind = "none" -> raw
    [] m.kind = "replace" -> [raw EXCEPT ![m.at] = <<m.ch>>]
    [] m.kind = "insert" ->
         SubSeq(raw, 1, m.at) \o <<<<m.ch>>>> \o SubSeq(raw, m.at + 1, Len(raw))
    [] m.kind = "delete" -> SubSeq(raw, 1, m.at - 1) \o SubSeq(raw, m.at + 1, Len(raw))

NoInput == [base |-> "plain", token |-> "BOT_TOKEN", hashed |-> FALSE, mut |-> NoMutation]

\* The initData values sent to /api/has: two users' payloads as issued, one
\* without its hash, one signed with another token, one that asserts no
\* user, and one whose hash is a character outside ASCII.
HasInputs ==
  { [base |-> "plain", token |-> "BOT_TOKEN", hashed |-> TRUE, mut |-> NoMutation],
    [base |-> "unsorted", token |-> "BOT_TOKEN", hashed |-> TRUE, mut |-> NoMutation],
    [base |-> "plain", token |-> "BOT_TOKEN", hashed |-> FALSE, mut |-> NoMutation],
    [base |-> "plain", token |-> "OTHER_TOKEN", hashed |-> TRUE, mut |-> NoMutation],
    [base |-> "no_user", token |-> "BOT_TOKEN", hashed |-> TRUE, mut |-> NoMutation],
    [base |-> "plain", token |-> "BOT_TOKEN", hashed |-> TRUE,
     mut |-> [kind |-> "replace", at |-> 17, ch |-> "e_acute"]] }

InputText(in) == Mutate(RawOf(in.base, in.token, in.hashed), in.mut)

\* --------------------------------------------------------------- ledger

\* Mutant: ... DO UPDATE SET until_ts = MAX(until_ts, excluded.until_ts)
UpsertMax(db, user_id, until_ts) ==
  {r \in db : r.user_id # user_id}
    \cup {[user_id |-> user_id,
           until_ts |-> IF \E r \in db : r.user_id = user_id /\ r.until_ts > until_ts
                        THEN (CHOOSE r \in db : r.user_id = user_id).until_ts
                        ELSE until_ts]}

\* Mutant: INSERT OR IGNORE, which keeps the row a user already has
UpsertIgnore(db, user_id, until_ts) ==
  IF \E r \in db : r.user_id = user_id THEN db
  ELSE db \cup {[user_id |-> user_id, until_ts |-> until_ts]}

\* INSERT ... ON CONFLICT(user_id) DO UPDATE SET until_ts = excluded.until_ts
Upsert(db, user_id, until_ts) ==
  {r \in db : r.user_id # user_id} \cup {[user_id |-> user_id, until_ts |-> until_ts]}

\* SELECT until_ts FROM access WHERE user_id=? ... fetchone(): the until_ts of
\* a matching row as <<until_ts>>, or <<>> for None.
SelectUntil(db, user_id) ==
  IF \E r \in db : r.user_id = user_id
  THEN <<(CHOOSE r \in db : r.user_id = user_id).until_ts>>
  ELSE <<>>

\* ------------------------------------------------------------ responses

NoResponse ==
  [status |-> 0, json |-> FALSE, keys |-> {}, ok |-> FALSE, has |-> FALSE,
   until |-> 0, error |-> "", invoice_link |-> ""]

\* jsonify(ok=False), 403
Forbidden ==
  [NoResponse EXCEPT !.status = 403, !.json = TRUE, !.keys = {"ok"}]

\* jsonify(ok=False, error=...), status
ErrorResponse(status, error) ==
  [NoResponse EXCEPT !.status = status, !.json = TRUE, !.keys = {"ok", "error"},
                     !.error = error]

\* An exception no handler catches: Flask answers 500 with its own error
\* page, which is not JSON.
Unhandled == [NoResponse EXCEPT !.status = 500]

\* Mutant: row[0] >= now_ts
HasAccessInclusive(row, now_ts) == row # <<>> /\ row[1] >= now_ts

\* bool(row and row[0] > now_ts)
HasAccess(row, now_ts) == row # <<>> /\ row[1] > now_ts

\* jsonify(ok=True, has=has_access, until=row[0] if row else 0)
HasResponse(row, now_ts) ==
  [NoResponse EXCEPT !.status = 200, !.json = TRUE, !.keys = {"ok", "has", "until"},
                     !.ok = TRUE, !.has = HasAccess(row, now_ts),
                     !.until = IF row # <<>> THEN row[1] ELSE 0]

\* jsonify(ok=True, invoice_link=...)
LinkResponse(link) ==
  [NoResponse EXCEPT !.status = 200, !.json = TRUE, !.keys = {"ok", "invoice_link"},
                     !.ok = TRUE, !.invoice_link = link]

\* ----------------------------------------------------------------- /buy

\* JSON values of a request body.
JAbsent == [t |-> "absent", i |-> 0, s |-> <<>>]
JNull == [t |-> "null", i |-> 0, s |-> <<>>]
JInt(n) == [t |-> "int", i |-> n, s |-> <<>>]
JStr(str) == [t |-> "str", i |-> 0, s |-> str]

\* data.get(key, default)
GetOr(v, default) == IF v.t = "absent" THEN default ELSE v

\* data.get(key): None when the key is absent
Get(v) == GetOr(v, JNull)

\* not x, for a JSON value
Falsy(v) ==
  \/ v.t = "null"
  \/ v.t = "int" /\ v.i = 0
  \/ v.t = "str" /\ v.s = <<>>

\* int(x): TypeError for None, ValueError for a str that is no integer.
IntRaises(v) == v.t = "null" \/ (v.t = "str" /\ ~IsIntLiteral(v.s))

PyInt(v) == IF v.t = "int" THEN v.i ELSE IntOf(v.s)

\* Mutant: the two prices the wrong way round
AmountSwapped(days) == IF days = 1 THEN 29300 ELSE 10000

\* amount = 10000 if days == 1 else 29300
Amount(days) == IF days = 1 THEN 10000 ELSE 29300

\* str(n) for n >= 0
RECURSIVE Digits(_)
Digits(n) ==
  IF n < 10 THEN <<ChrOfByte(48 + n)>>
  ELSE Digits(n \div 10) \o <<ChrOfByte(48 + (n % 10))>>

\* payload = f"premium_{days}d"
InvoicePayload(days) ==
  Str(<<"p", "r", "e", "m", "i", "u", "m", "_">>) \o Digits(days) \o Str(<<"d">>)

InvoiceReq(chat_id, days) ==
  [chat_id |-> chat_id, payload |-> InvoicePayload(days), amount |-> Amount(days),
   currency |-> "RUB", start_parameter |-> InvoicePayload(days)]

\* The JSON bodies sent to /buy: user_id and days, each possibly missing.
BuyUserIds == {JAbsent, JInt(0), JInt(5), JInt(7)}
BuyDays ==
  {JAbsent, JNull, JInt(1), JInt(30), JInt(7), JStr(Str(<<"x">>)),
   JStr(Str(<<"3", "0">>))}

\* The few of them sent while the bot and /api/has are at work.
FewUserIds == {JInt(5)}
FewDays == {JInt(30), JInt(7)}

\* What requests.post(..., timeout=10) and the reading of its reply can give.
TransportOutcomes ==
  {"connection_error", "timeout", "http_error", "not_json", "json_not_object",
   "ok_false", "ok_no_result", "ok_result_str", "ok_result_link",
   "ok_result_nolink", "ok_result_other"}

\* The response api_buy gives for each outcome. A body that is not JSON makes
\* r.json() raise: a RequestException in requests >= 2.27 and a plain
\* ValueError before, so either answer is possible.
BuyResponses(outcome) ==
  CASE outcome \in {"connection_error", "timeout", "http_error"} ->
         {ErrorResponse(500, "network error")}
    [] outcome = "not_json" -> {ErrorResponse(500, "network error"), Unhandled}
    [] outcome \in {"json_not_object", "ok_no_result"} -> {Unhandled}
    [] outcome \in {"ok_false", "ok_result_nolink", "ok_result_other"} ->
         {ErrorResponse(502, "invoice failed")}
    [] outcome \in {"ok_result_str", "ok_result_link"} -> {LinkResponse("LINK")}

NoLocals == [uid |-> 0, now_ts |-> 0, row |-> <<>>, read |-> FALSE, days |-> 0,
             sawFinished |-> 0, outcome |-> ""]

NoRequest == [kind |-> "none", initData |-> NoInput, user_id |-> JAbsent,
              days |-> JAbsent]

\* ------------------------------------------------------------- /api/has

\* The latest entry of grantLog for a user whose handler has returned, 0 if
\* there is none: what a request that starts now must at least see.
LastFinished(u) ==
  LET S == {i \in finished : grantLog[i].user_id = u} IN
  IF S = {} THEN 0 ELSE CHOOSE i \in S : \A j \in S : j <= i

\* Lines 96-101: verify, then either answer 403 or note the time.
HasStart ==
  /\ fpc = "idle"
  /\ \E in \in HasInputs :
       LET v == verify_initdata(InputText(in)) IN
       /\ freq' = [NoRequest EXCEPT !.kind = "has", !.initData = in]
       /\ posts' = <<>>
       /\ IF v.tag = "TypeError"
          THEN /\ fresp' = Unhandled /\ fpc' = "done" /\ fl' = NoLocals
          ELSE IF v.tag = "None" \/ v.val = 0
          THEN /\ fresp' = Forbidden /\ fpc' = "done" /\ fl' = NoLocals
          ELSE /\ fresp' = NoResponse
               /\ fpc' = "has_lock"
               /\ fl' = [NoLocals EXCEPT !.uid = v.val, !.now_ts = clock,
                                         !.sawFinished = LastFinished(v.val)]
  /\ UNCHANGED <<clock, access, charges, lock, botVars, ticks, verifyVars>>

\* Line 102: with DB_LOCK
HasAcquire ==
  /\ fpc = "has_lock"
  /\ lock = "free"
  /\ lock' = "flask"
  /\ fpc' = "has_read"
  /\ UNCHANGED <<clock, access, charges, freq, fl, fresp, posts, botVars, ticks,
                 verifyVars>>

\* Line 103: the SELECT
HasRead ==
  /\ fpc = "has_read"
  /\ fl' = [fl EXCEPT !.row = SelectUntil(access, fl.uid), !.read = TRUE]
  /\ fpc' = "has_unlock"
  /\ UNCHANGED <<clock, access, charges, lock, freq, fresp, posts, botVars, ticks,
                 verifyVars>>

\* End of the with block
HasRelease ==
  /\ fpc = "has_unlock"
  /\ lock' = "free"
  /\ fpc' = "has_respond"
  /\ UNCHANGED <<clock, access, charges, freq, fl, fresp, posts, botVars, ticks,
                 verifyVars>>

\* Lines 104-105
HasRespond ==
  /\ fpc = "has_respond"
  /\ fresp' = HasResponse(fl.row, fl.now_ts)
  /\ fpc' = "done"
  /\ UNCHANGED <<clock, access, charges, lock, freq, fl, posts, botVars, ticks,
                 verifyVars>>

\* Lines 109-131: read the arguments, refuse them or build the invoice.
BuyStartOf(userIds, dayValues) ==
  /\ fpc = "idle"
  /\ \E user_id \in userIds, d \in dayValues :
       LET chat_id == Get(user_id)
           daysArg == GetOr(d, JInt(1))
       IN
       /\ freq' = [NoRequest EXCEPT !.kind = "buy", !.user_id = user_id, !.days = d]
       /\ posts' = <<>>
       /\ IF IntRaises(daysArg)
          THEN /\ fresp' = Unhandled /\ fpc' = "done" /\ fl' = NoLocals
          ELSE IF Falsy(chat_id) \/ PyInt(daysArg) \notin {1, 30}
          THEN /\ fresp' = ErrorResponse(400, "bad args")
               /\ fpc' = "done" /\ fl' = NoLocals
          ELSE /\ fresp' = NoResponse
               /\ fpc' = "buy_post"
               /\ fl' = [NoLocals EXCEPT !.uid = chat_id.i, !.days = PyInt(daysArg)]
  /\ UNCHANGED <<clock, access, charges, lock, botVars, ticks, verifyVars>>

BuyStart == BuyStartOf(BuyUserIds, BuyDays)

BuyStartFew == BuyStartOf(FewUserIds, FewDays)

\* Lines 133-152: the POST to createInvoiceLink and the answer built from it.
BuyPost ==
  /\ fpc = "buy_post"
  /\ posts' = Append(posts, InvoiceReq(fl.uid, fl.days))
  /\ \E outcome \in TransportOutcomes :
       /\ fresp' \in BuyResponses(outcome)
       /\ fl' = [fl EXCEPT !.outcome = outcome]
  /\ fpc' = "done"
  /\ UNCHANGED <<clock, access, charges, lock, freq, botVars, ticks, verifyVars>>

\* The response is sent; the thread takes the next request.
FlaskReturn ==
  /\ fpc = "done"
  /\ fpc' = "idle"
  /\ freq' = NoRequest
  /\ fl' = NoLocals
  /\ fresp' = NoResponse
  /\ posts' = <<>>
  /\ UNCHANGED <<clock, access, charges, lock, botVars, ticks, verifyVars>>

\* ------------------------------------------------------------- the bot

\* str.endswith(suffix)
EndsWith(s, suffix) ==
  Len(s) >= Len(suffix) /\ SubSeq(s, Len(s) - Len(suffix) + 1, Len(s)) = suffix

\* Mutant: endswith("d")
DecodeDaysAnyD(invoice_payload) ==
  IF EndsWith(invoice_payload, Str(<<"d">>)) THEN 1 ELSE 30

\* days = 1 if invoice_payload.endswith("1d") else 30
DecodeDays(invoice_payload) ==
  IF EndsWith(invoice_payload, Str(<<"1", "d">>)) THEN 1 ELSE 30

\* until_ts = int(time.time()) + days * 86400
UntilTs(now, days) == now + days * 86400

NoUpdate == [kind |-> "none", user |-> 0, days |-> 0, invoice_payload |-> <<>>,
             charge_id |-> ""]

NoBotLocals == [days |-> 0, until_ts |-> 0, called_at |-> 0, grants |-> <<>>]

\* Mutant: access is granted as soon as the checkout is approved
PreCheckoutGrants ==
  /\ bpc = "idle"
  /\ \E u \in Users :
       /\ bev' = [NoUpdate EXCEPT !.kind = "pre_checkout_query", !.user = u]
       /\ access' = Upsert(access, u, UntilTs(clock, 1))
  /\ bl' = NoBotLocals
  /\ answers' = <<[ok |-> TRUE]>>
  /\ UNCHANGED <<clock, charges, lock, flaskVars, bpc, awaiting, grantLog, finished,
                 ticks, events, verifyVars>>

\* The dispatcher runs each update's handler as a task of one event loop: a
\* handler runs alone up to its await, and while it waits there the loop
\* takes other updates.

\* on_pre_checkout: answer_pre_checkout_query(q.id, ok=True)
PreCheckout ==
  /\ bpc = "idle"
  /\ bev' = [NoUpdate EXCEPT !.kind = "pre_checkout_query"]
  /\ bl' = NoBotLocals
  /\ answers' = <<[ok |-> TRUE]>>
  /\ UNCHANGED <<clock, access, charges, lock, flaskVars, bpc, awaiting, grantLog,
                 finished, ticks, events, verifyVars>>

\* on_success, lines 165-166 and 64: a successful payment of an invoice that
\* /buy made for `days` days arrives (a redelivery is the same update again);
\* the day count is decoded and grant_access computes the expiry.
SuccessStart ==
  /\ bpc = "idle"
  /\ events < MaxEvents
  /\ events' = events + 1
  /\ \E u \in Users, d \in {1, 30}, c \in ChargeIds :
       /\ bev' = [kind |-> "successful_payment", user |-> u, days |-> d,
                  invoice_payload |-> InvoicePayload(d), charge_id |-> c]
       /\ bl' = [NoBotLocals EXCEPT
                   !.days = DecodeDays(InvoicePayload(d)),
                   !.until_ts = UntilTs(clock, DecodeDays(InvoicePayload(d))),
                   !.called_at = clock,
                   !.grants = <<[user_id |-> u, days |-> DecodeDays(InvoicePayload(d))]>>]
  /\ answers' = <<>>
  /\ bpc' = "grant_lock"
  /\ UNCHANGED <<clock, access, charges, lock, flaskVars, awaiting, grantLog,
                 finished, ticks, verifyVars>>

\* Line 65: with DB_LOCK
GrantAcquire ==
  /\ bpc = "grant_lock"
  /\ lock = "free"
  /\ lock' = "bot"
  /\ bpc' = "grant_write"
  /\ UNCHANGED <<clock, access, charges, flaskVars, bev, bl, answers, awaiting,
                 grantLog, finished, ticks, events, verifyVars>>

\* Lines 66-71: the upsert and its commit, and the with block ends
GrantWrite ==
  /\ bpc = "grant_write"
  /\ access' = Upsert(access, bev.user, bl.until_ts)
  /\ grantLog' = Append(grantLog, [user_id |-> bev.user, until_ts |-> bl.until_ts,
                                    called_at |-> bl.called_at, days |-> bev.days])
  /\ lock' = "free"
  /\ bpc' = "charge_lock"
  /\ UNCHANGED <<clock, charges, flaskVars, bev, bl, answers, awaiting,
                 finished, ticks, events, verifyVars>>

\* Lines 168-171: with DB_LOCK, INSERT INTO charges and its commit; then the
\* handler waits in await msg.answer(...)
ChargeWrite ==
  /\ bpc = "charge_lock"
  /\ lock = "free"
  /\ charges' = Append(charges, [user_id |-> bev.user, charge_id |-> bev.charge_id])
  /\ awaiting' = awaiting \cup {Len(grantLog)}
  /\ bpc' = "idle"
  /\ UNCHANGED <<clock, access, lock, flaskVars, bev, bl, answers, grantLog,
                 finished, ticks, events, verifyVars>>

\* Line 171: the confirmation is sent and the handler returns
Confirm ==
  /\ \E h \in awaiting :
       /\ awaiting' = awaiting \ {h}
       /\ finished' = finished \cup {h}
  /\ UNCHANGED <<clock, access, charges, lock, flaskVars, bpc, bev, bl, answers,
                 grantLog, ticks, events, verifyVars>>

\* ------------------------------------------------------------- the clock

\* A day passes.
Tick ==
  /\ ticks < MaxTicks
  /\ ticks' = ticks + 1
  /\ clock' = clock + 86400
  /\ UNCHANGED <<access, charges, lock, flaskVars, botVars, verifyVars>>

\* ----------------------------------------------------- the specification

InitSystem ==
  /\ clock = 0
  /\ access = {}
  /\ charges = <<>>
  /\ lock = "free"
  /\ fpc = "idle"
  /\ freq = NoRequest
  /\ fl = NoLocals
  /\ fresp = NoResponse
  /\ posts = <<>>
  /\ bpc = "idle"
  /\ bev = NoUpdate
  /\ bl = NoBotLocals
  /\ answers = <<>>
  /\ awaiting = {}
  /\ grantLog = <<>>
  /\ finished = {}
  /\ ticks = 0
  /\ events = 0

Init ==
  /\ InitSystem
  /\ vin = NoInput
  /\ vraw = <<>>
  /\ vout = RetNone
  /\ vpc = "off"

Next ==
  \/ HasStart \/ HasAcquire \/ HasRead \/ HasRelease \/ HasRespond
  \/ BuyStartFew \/ BuyPost \/ FlaskReturn
  \/ PreCheckout \/ SuccessStart \/ GrantAcquire \/ GrantWrite \/ ChargeWrite
  \/ Confirm
  \/ Tick

Spec == Init /\ [][Next]_vars

\* /buy on its own, over every body.
NextBuy == BuyStart \/ BuyPost \/ FlaskReturn

SpecBuy == Init /\ [][NextBuy]_vars

\* verify_initdata on its own, over every base payload, signed with the bot's
\* token or another, with or without its hash field, as issued or with one
\* character replaced, inserted or deleted.
InitVerify ==
  /\ InitSystem
  /\ \E base \in BaseNames, token \in Tokens, hashed \in BOOLEAN :
       \E m \in Mutations(RawOf(base, token, hashed)) :
         /\ vin = [base |-> base, token |-> token, hashed |-> hashed, mut |-> m]
         /\ vraw = Mutate(RawOf(base, token, hashed), m)
         /\ m.kind = "none" \/ vraw # RawOf(base, token, hashed)
  /\ vout = RetNone
  /\ vpc = "call"

VerifyCall ==
  /\ vpc = "call"
  /\ vout' = verify_initdata(vraw)
  /\ vpc' = "done"
  /\ UNCHANGED <<clock, access, charges, lock, flaskVars, botVars, ticks, vin, vraw>>

NextVerify == VerifyCall

SpecVerify == InitVerify /\ [][NextVerify]_vars

\* --------------------------------------------------------------- claims

RowsOf(db, u) == {r \in db : r.user_id = u}

GrantsOf(u, among) == {i \in among : grantLog[i].user_id = u}

Last(S) == CHOOSE i \in S : \A j \in S : j <= i

\* C1: after any sequence of grants (redeliveries included) the ledger holds
\* at most one record per user, none for a user never granted, and the
\* record's until_ts is the time of that user's most recent grant plus the
\* days of that grant times 86400, whatever the earlier grants were.
C1_LastGrantWins ==
  \A u \in Users \cup {r.user_id : r \in access} :
    LET g == GrantsOf(u, DOMAIN grantLog) IN
    /\ Cardinality(RowsOf(access, u)) <= 1
    /\ g = {} => RowsOf(access, u) = {}
    /\ g # {} =>
         RowsOf(access, u) =
           {[user_id |-> u,
             until_ts |-> grantLog[Last(g)].called_at + grantLog[Last(g)].days * 86400]}

\* C1 witness: a user was granted 30 days and later 1 day, and the record
\* holds the later, shorter expiry.
C1_Witness ==
  \E u \in Users :
    \E i, j \in GrantsOf(u, DOMAIN grantLog) :
      /\ i < j /\ j = Len(grantLog)
      /\ grantLog[i].days = 30 /\ grantLog[j].days = 1
      /\ grantLog[j].called_at > grantLog[i].called_at
      /\ RowsOf(access, u) =
           {[user_id |-> u, until_ts |-> grantLog[j].called_at + 86400]}

\* C2: a user's access record appears or changes only in the step of the
\* successful-payment handler that writes the grant for that user, and a
\* record that exists is never removed; no step of /api/has, /buy or the
\* pre-checkout handler changes the ledger, whatever their outcome.
C2_OnlyPaymentWrites ==
  [][\A u \in Users \cup {r.user_id : r \in access \cup access'} :
       /\ RowsOf(access, u) # {} => RowsOf(access', u) # {}
       /\ RowsOf(access', u) # RowsOf(access, u) =>
            /\ bpc = "grant_write"
            /\ bev.kind = "successful_payment"
            /\ bev.user = u]_vars

\* C2 witness: with a record in the ledger, a pre-checkout query has been
\* answered and /buy has answered after calling the transport.
C2_Witness ==
  /\ access # {}
  /\ bev.kind = "pre_checkout_query" /\ answers # <<>>
  /\ fpc = "done" /\ freq.kind = "buy" /\ posts # <<>>

\* What a payload, as made, asserts and whether the platform issued it.
Authentic(in) ==
  in.hashed /\ in.token = BOT_TOKEN /\ in.mut.kind = "none"
    /\ in.base # "field_without_eq"

AssertsUser(in) ==
  /\ StrUserId \in DOMAIN DictOf(BasePayloads[in.base].fields)
  /\ IsIntLiteral(DictOf(BasePayloads[in.base].fields)[StrUserId])

AssertedUser(in) == IntOf(DictOf(BasePayloads[in.base].fields)[StrUserId])

\* C3: verify_initdata returns the asserted user id for every well-formed
\* payload the platform signed, and rejects (returns None for) every payload
\* without a hash, with a field without '=', with a hash made with another
\* key, and every validly signed payload with one character changed.
C3_VerifyIffAuthentic ==
  vpc = "done" =>
    /\ Authentic(vin) /\ AssertsUser(vin) => vout = RetInt(AssertedUser(vin))
    /\ ~Authentic(vin) => vout = RetNone

\* C4: /api/has with a payload that fails verification always answers 403
\* {ok: false} and nothing else, the same for every cause of the failure and
\* every ledger content, and does not read the ledger.
C4_Unauthorized ==
  fpc = "done" /\ freq.kind = "has"
    /\ ~(Authentic(freq.initData) /\ AssertsUser(freq.initData))
    => fresp = Forbidden /\ ~fl.read

\* C5: for a verified user u, /api/has reads u's record under the lock as
\* the ledger holds it, and answers has = TRUE exactly when the record
\* exists and its until_ts is greater than the time the handler noted, with
\* until the stored until_ts, or 0 and has = FALSE when there is no record.
C5_QueryResult ==
  /\ fpc = "has_unlock" =>
       \/ fl.row = <<>> /\ RowsOf(access, fl.uid) = {}
       \/ \E r \in RowsOf(access, fl.uid) : fl.row = <<r.until_ts>>
  /\ fpc = "done" /\ freq.kind = "has"
       /\ Authentic(freq.initData) /\ AssertsUser(freq.initData) =>
       /\ fl.uid = AssertedUser(freq.initData)
       /\ fl.read /\ fl.now_ts <= clock
       /\ fresp.status = 200 /\ fresp.ok /\ fresp.keys = {"ok", "has", "until"}
       /\ fresp.has <=> (fl.row # <<>> /\ fl.row[1] > fl.now_ts)
       /\ fresp.until = (IF fl.row = <<>> THEN 0 ELSE fl.row[1])

\* C5 witness: a record exists and expires exactly at the time the handler
\* noted, and the answer is has = FALSE with the stored until.
C5_Witness ==
  /\ fpc = "done" /\ freq.kind = "has" /\ fresp.status = 200
  /\ fl.row # <<>> /\ fresp.until = fl.now_ts /\ ~fresp.has

\* C6: a /api/has request for u that starts after a successful-payment
\* handler for u has returned answers with the expiry that handler wrote or
\* one written later, never an older one and never "no record"; the SELECT
\* and the upsert run only while their thread holds DB_LOCK.
C6_ReadYourWrites ==
  /\ fpc \in {"has_read", "has_unlock"} => lock = "flask"
  /\ bpc = "grant_write" => lock = "bot"
  /\ fpc = "done" /\ freq.kind = "has" /\ fresp.status = 200
       /\ fl.sawFinished # 0 =>
         \E j \in fl.sawFinished..Len(grantLog) :
           /\ grantLog[j].user_id = fl.uid
           /\ fresp.until = grantLog[j].until_ts
           /\ fresp.keys = {"ok", "has", "until"}

\* C6 witness: two payments of one user were handled, with different expiries, before
\* the request started, and the answer holds the second one's expiry.
C6_Witness ==
  /\ fpc = "done" /\ freq.kind = "has" /\ fresp.status = 200
  /\ fl.sawFinished = 2 /\ finished = {1, 2}
  /\ grantLog[1].user_id = fl.uid /\ grantLog[2].user_id = fl.uid
  /\ grantLog[1].until_ts # grantLog[2].until_ts
  /\ fresp.until = grantLog[2].until_ts

\* The arguments the claim calls valid: user_id present, days 1 or 30.
ValidBuyArgs(req) ==
  /\ req.user_id.t = "int" /\ req.user_id.i # 0
  /\ req.days.t = "int" /\ req.days.i \in {1, 30}

\* C7: /buy answers 400 and does not call the transport for every request
\* whose days is not 1 or 30 or whose user_id or days is missing or invalid;
\* the transport is called only when user_id is present and days is 1 or 30.
C7_BadRequest ==
  fpc = "done" /\ freq.kind = "buy" =>
    /\ ~ValidBuyArgs(freq) => fresp.status = 400 /\ posts = <<>>
    /\ posts # <<>> => ValidBuyArgs(freq)

GoodOutcomes == {"ok_result_str", "ok_result_link"}

\* C8: /buy answers ok = TRUE, with the link, only if the transport call
\* succeeded and returned a well-formed result; for every transport failure
\* and every malformed or negative reply it answers with a server error and
\* ok = FALSE.
C8_TransportFailure ==
  fpc = "done" /\ freq.kind = "buy" /\ posts # <<>> =>
    /\ fresp.ok => fl.outcome \in GoodOutcomes /\ "invoice_link" \in fresp.keys
    /\ fl.outcome \notin GoodOutcomes =>
         /\ fresp.status >= 500
         /\ fresp.json /\ "ok" \in fresp.keys /\ ~fresp.ok

\* C9: handling one successful payment calls grant once, for the paying
\* user, with the days the invoice was bought for (premium_1d gives 1,
\* premium_30d gives 30), and a confirmation is sent only for a payment
\* whose grant is already committed with those days.
C9_GrantOncePerPayment ==
  /\ bev.kind = "successful_payment" =>
       /\ bev.invoice_payload = InvoicePayload(bev.days)
       /\ bl.grants = <<[user_id |-> bev.user, days |-> bev.days]>>
  /\ \A h \in awaiting \cup finished :
       /\ h \in DOMAIN grantLog
       /\ grantLog[h].until_ts = grantLog[h].called_at + grantLog[h].days * 86400
  /\ Len(charges) <= Len(grantLog) /\ Len(grantLog) <= events

\* C9 witness: the payment of a premium_30d invoice has been granted and
\* confirmed.
C9_Witness ==
  /\ finished # {} /\ bev.kind = "successful_payment" /\ bev.days = 30
  /\ bev.invoice_payload =
       Str(<<"p", "r", "e", "m", "i", "u", "m", "_", "3", "0", "d">>)
  /\ bl.grants = <<[user_id |-> bev.user, days |-> 30]>>
  /\ Len(grantLog) \in finished /\ grantLog[Len(grantLog)].days = 30

\* C10 as claimed: every invoice /buy sends is priced 29900 for 1 day and
\* 150000 for 30 days.
C10_SpecPrices ==
  \A i \in 1..Len(posts) :
    posts[i].amount = (IF fl.days = 1 THEN 29900 ELSE 150000)

\* C10 as amended: every invoice /buy sends is priced 10000 minor units for
\* 1 day and 29300 for 30 days, in RUB.
C10_CodePrices ==
  \A i \in 1..Len(posts) :
    /\ fl.days \in {1, 30}
    /\ posts[i].payload = InvoicePayload(fl.days)
    /\ posts[i].currency = "RUB"
    /\ posts[i].amount = (IF fl.days = 1 THEN 10000 ELSE 29300)

\* C10 witness: an invoice for 30 days was sent.
C10_Witness == posts # <<>> /\ fl.days = 30 /\ posts[1].amount = 29300

====
